---- MODULE Spec2Model ----
(***************************************************************************)
(* Model of the search handler of search_engine_api (src/src/main.rs):     *)
(* the admission cache (TokenCache behind a tokio Mutex), the external     *)
(* Turnstile verifier, and the ranking pipeline that follows admission.    *)
(*                                                                         *)
(* Each request is a task running `search`; one action of the model is the *)
(* code of the handler between two suspension points (.await), or one      *)
(* clock-reading cache operation.  The wall clock (SystemTime, whole       *)
(* seconds) advances by the environment action Tick and is assumed not to  *)
(* step backwards.                                                         *)
(*                                                                         *)
(* The pure functions of ranking.rs and lemmatise.rs are also modelled on  *)
(* their own, the arithmetic of ranking.rs in f32 with its roundings and   *)
(* the lemmatiser on the characters of the text; the variable call holds   *)
(* one call of one of them and its return value.                           *)
(***************************************************************************)
EXTENDS Integers, Sequences, FiniteSets, TLC

\* ---------------------------------------------------------------- bounds
NReq == 2            \* requests served in one behaviour (request r is the r-th to arrive)
MaxTicks == 3        \* clock advances in one behaviour
MaxDocs == 3         \* documents in the store that can match a query
ScoreSteps == 2      \* similarity scores are quantised: 0..ScoreSteps-1 up to 1.0, ScoreSteps above
MaxRequested == 3    \* largest "results" parameter a request carries
MaxQueryLen == 4     \* words in a lemmatised query given to the ranking functions
MaxCorpus == 2       \* document_count, the number of webpages in the store
MaxWordCount == 3    \* word_count of a webpage
MaxTextLen == 4      \* characters in a text given to the lemmatiser

\* ------------------------------------------------------ program constants
TTL == 120              \* main.rs:52, main.rs:67
DefaultResults == 100   \* main.rs:148
MaxResultsCfg == 100    \* main.rs:85 (MAX_RESULTS default)

NoParam == "none"       \* an absent "token" parameter, an unset string
\* Option values whose payload is not a string: None is {}, Some(x) is {x}.
None == {}
Some(x) == {x}
Unwrap(o) == CHOOSE x \in o : TRUE
Reqs == 1..NReq
Tokens == {"t1", "t2"}
IPs == {"a", "b"}
TickJumps == {1, 119}   \* seconds the clock may advance in one step
One == ScoreSteps - 1   \* the score 1.0

Min(a, b) == IF a <= b THEN a ELSE b
Max(a, b) == IF a >= b THEN a ELSE b

VARIABLES
    tokens,      \* TokenCache.tokens: set of records [token, ts, ip]
    lockHolder,  \* the task holding the tokio Mutex guard, 0 when unlocked
    waitq,       \* tasks suspended in token_cache.lock().await, FIFO
    now,         \* SystemTime::now() in whole seconds
    ticks,       \* number of clock advances so far
    req,         \* per task: position in `search`, its locals, its response
    lastOk,      \* per credential: origin of the last verification the
                 \* verifier answered with success (history), or NoParam
    call         \* a call of one of the pure functions of ranking.rs and
                 \* lemmatise.rs on its own: [fn, args, done, ret]

vars == <<tokens, lockHolder, waitq, now, ticks, req, lastOk, call>>

\* ------------------------------------------------------------ TokenCache
\* is_valid without the comparison of the stored origin.
is_valid_any_origin(cache, token, ip, t) ==
    \E rec \in cache : rec.token = token /\ t - rec.ts <= TTL

\* TokenCache::is_valid, with the clock value t it reads.
is_valid(cache, token, ip, t) ==
    \E rec \in cache : rec.token = token /\ t - rec.ts <= TTL /\ rec.ip = ip

\* add_token that keeps the previous entry of the key beside the new one.
add_token_keep_old(cache, token, ip, t) ==
    cache \cup {[token |-> token, ts |-> t, ip |-> ip]}

\* TokenCache::add_token: HashMap::insert replaces the entry of the key.
add_token(cache, token, ip, t) ==
    {rec \in cache : rec.token # token} \cup {[token |-> token, ts |-> t, ip |-> ip]}

\* clean_old_tokens that retains every record.
clean_old_tokens_none(cache, t) == cache

\* TokenCache::clean_old_tokens: retain the records of age <= 120.
clean_old_tokens(cache, t) == {rec \in cache : t - rec.ts <= TTL}

\* ------------------------------------------------------------- lemmatise
\* Entries of LEMMA_MAP that the repository's own test relies on.
LemmaMap == [w \in {"foxes", "dogs", "jumping"} |->
                CASE w = "foxes" -> "fox" [] w = "dogs" -> "dog" [] OTHER -> "jump"]

\* The per-word step of lemmatise_string: the lemma if the table has the
\* word, the word otherwise.  A query text is modelled as its sequence of
\* lower-case, punctuation-free, whitespace-separated words.
lemmatise_string(words) ==
    [i \in 1..Len(words) |->
        IF words[i] \in DOMAIN LemmaMap THEN LemmaMap[words[i]] ELSE words[i]]

\* The same function on the characters of the text.  A text, a word and a
\* lemma are sequences of characters; a lemma table is a function from words
\* to lemmas.
Chars == {"a", "b", "A", "-", " "}
WhitespaceChars == {" "}                     \* \s
KeptChars == {"a", "b", "A"} \cup WhitespaceChars    \* [a-zA-Z0-9\s]

\* str::to_lowercase
to_lowercase(text) == [i \in DOMAIN text |-> IF text[i] = "A" THEN "a" ELSE text[i]]

\* PUNCTUATION_REGEX.replace_all(text, " "): a space for each match.
replace_all_by_space(text) ==
    [i \in DOMAIN text |-> IF text[i] \in KeptChars THEN text[i] ELSE " "]

\* PUNCTUATION_REGEX.replace_all(text, ""): the matches are deleted.
replace_all(text) == SelectSeq(text, LAMBDA c : c \in KeptChars)

RECURSIVE WordLen(_)
\* Length of the run of non-whitespace characters text begins with.
WordLen(text) ==
    IF text = <<>> \/ Head(text) \in WhitespaceChars THEN 0 ELSE 1 + WordLen(Tail(text))

RECURSIVE split_whitespace(_)
\* str::split_whitespace: the maximal runs of non-whitespace, in order.
split_whitespace(text) ==
    IF text = <<>> THEN <<>>
    ELSE IF Head(text) \in WhitespaceChars THEN split_whitespace(Tail(text))
    ELSE <<SubSeq(text, 1, WordLen(text))>>
            \o split_whitespace(SubSeq(text, WordLen(text) + 1, Len(text)))

\* custom_map.get(word).unwrap_or(word)
lemma_of(custom_map, word) == IF word \in DOMAIN custom_map THEN custom_map[word] ELSE word

\* Lemmatisation that turns punctuation into word breaks.
lemmatise_string_with_custom_map_spaced(text, custom_map) ==
    LET words == split_whitespace(replace_all_by_space(to_lowercase(text)))
    IN  [i \in DOMAIN words |-> lemma_of(custom_map, words[i])]

\* lemmatise.rs 74-84 (lemmatise_string, 55-62, is this function with
\* LEMMA_MAP as the table).
lemmatise_string_with_custom_map(text, custom_map) ==
    LET words == split_whitespace(replace_all(to_lowercase(text)))
    IN  [i \in DOMAIN words |-> lemma_of(custom_map, words[i])]

RECURSIVE join(_)
\* words.join(" ")
join(words) ==
    IF words = <<>> THEN <<>>
    ELSE IF Len(words) = 1 THEN words[1]
    ELSE words[1] \o <<" ">> \o join(Tail(words))

\* ----------------------------------------------------------- the store
\* Score levels: k < ScoreSteps stands for the score k/(ScoreSteps - 1), and
\* ScoreSteps for a score above 1.0, which calculate_similarity returns for
\* some webpages parallel to the query (see C12).
Scores == 0..ScoreSteps
DocIds == 1..MaxDocs
\* Site-authority table (top_domains): host -> rank, 1 = most authoritative.
TopDomains == [h \in {"a.com", "b.org"} |-> IF h = "a.com" THEN 1 ELSE 2]
\* Host of the URL of each stored webpage; the third and later are unranked.
HostOf(id) == IF id = 1 THEN "b.org" ELSE IF id = 2 THEN "a.com" ELSE "z.net"
\* A Webpage together with the value calculate_similarity returns for it
\* against the request's query (quantised to Scores).
Webpage(id, score) == [id |-> id, score |-> score, host |-> HostOf(id)]
\* What fetch_webpages can return: any set of webpages, one per id.
WebpageSets ==
    {D \in SUBSET {Webpage(id, s) : id \in DocIds, s \in Scores} :
        \A d1, d2 \in D : d1.id = d2.id => d1 = d2}
\* webpages_map.into_values().collect(): the set in an arbitrary order.
Orders(D) ==
    {o \in [1..Cardinality(D) -> D] : \A i, j \in 1..Cardinality(D) : i # j => o[i] # o[j]}

\* --------------------------------------------------------------- ranking
RECURSIVE InsertAsc(_, _)
\* The insertion step with the comparison reversed (a.cmp(b) for b.cmp(a)).
InsertAsc(x, s) ==
    IF s = <<>> THEN <<x>>
    ELSE IF Head(s).score < x.score THEN <<Head(s)>> \o InsertAsc(x, Tail(s))
    ELSE <<x>> \o s

RECURSIVE InsertDesc(_, _)
\* x placed after every element of the descending sequence s whose score is
\* greater, before the first whose score is <= x.score.
InsertDesc(x, s) ==
    IF s = <<>> THEN <<x>>
    ELSE IF Head(s).score > x.score THEN <<Head(s)>> \o InsertDesc(x, Tail(s))
    ELSE <<x>> \o s

RECURSIVE SortByScoreDesc(_)
\* sort_by(|a, b| b.0.partial_cmp(&a.0)): stable, score descending.
SortByScoreDesc(s) ==
    IF s = <<>> THEN <<>> ELSE InsertDesc(Head(s), SortByScoreDesc(Tail(s)))

\* get_tf_idf_scores: score every webpage, sort by score descending.  The
\* sort is unstable, but its input order is already arbitrary (Orders), so
\* every outcome is the stable sort of some input order.
get_tf_idf_scores(websites) == SortByScoreDesc(websites)

RECURSIVE CountScoreOne(_)
\* take_while(|(score, _)| *score == 1.0).count()
CountScoreOne(s) ==
    IF s = <<>> \/ Head(s).score # One THEN 0 ELSE 1 + CountScoreOne(Tail(s))

\* The count of the spec's section 4.4: min where the code has max.
results_to_return_min(ranked, num_results) ==
    IF ranked # <<>> /\ ranked[1].score = One
    THEN Min(CountScoreOne(ranked), num_results)
    ELSE num_results

\* main.rs 201-209
results_to_return(ranked, num_results) ==
    IF ranked # <<>> /\ ranked[1].score = One
    THEN Max(CountScoreOne(ranked), num_results)
    ELSE num_results

\* Vec::truncate
truncate(s, n) == SubSeq(s, 1, Min(Len(s), n))

\* main.rs 195-212: score, sort, sort again, truncate.
rank_webpages(websites, num_results) ==
    LET ranked == SortByScoreDesc(get_tf_idf_scores(websites))
    IN  truncate(ranked, results_to_return(ranked, num_results))

\* format_result: the rank of the host, 0 (usize default) when absent.
top_website_rank(host) == IF host \in DOMAIN TopDomains THEN TopDomains[host] ELSE 0

format_result(d, with_links) ==
    [id |-> d.id, score |-> d.score, top_website_rank |-> top_website_rank(d.host),
     links |-> with_links]

\* ------------------------------------------------------------------- f32
\* A non-negative f32 is [m, e], the value m * 2^e: zero is m = 0, e = 0; any
\* other value has a 24-bit significand, B23 <= m < B24.  Every operation
\* rounds to nearest, ties to even, as IEEE 754 does.  The values met here
\* are far from the subnormal and the overflow range.  Intermediate integers
\* stay below 2^31.
B12 == 4096
B23 == 8388608
B24 == 16777216
F32Zero == [m |-> 0, e |-> 0]
F32One == [m |-> B23, e |-> -23]

RECURSIVE Pow2(_)
Pow2(n) == IF n = 0 THEN 1 ELSE 2 * Pow2(n - 1)

Sign(x) == IF x > 0 THEN 1 ELSE IF x < 0 THEN -1 ELSE 0

\* m * 2^e with the dropped part above (1), at (0) or below (-1) one half of
\* the last place.
F32Round(m, e, cmp) ==
    LET up == cmp > 0 \/ (cmp = 0 /\ m % 2 = 1)
        m2 == IF up THEN m + 1 ELSE m
    IN  IF m2 = B24 THEN [m |-> B23, e |-> e + 1] ELSE [m |-> m2, e |-> e]

RECURSIVE F32Norm(_, _)
F32Norm(m, e) == IF m >= B23 THEN [m |-> m, e |-> e] ELSE F32Norm(2 * m, e - 1)

\* `n as f32` for an integer 0 <= n < 2^24 (exact).
F32(n) == IF n = 0 THEN F32Zero ELSE F32Norm(n, 0)

\* a > b
F32Gt(a, b) ==
    IF a.m = 0 THEN FALSE
    ELSE IF b.m = 0 THEN TRUE
    ELSE a.e > b.e \/ (a.e = b.e /\ a.m > b.m)

\* a * b: the 48-bit product of the significands as Hi * 2^24 + Lo.
F32Mul(a, b) ==
    IF a.m = 0 \/ b.m = 0 THEN F32Zero
    ELSE LET ah == a.m \div B12
             al == a.m % B12
             bh == b.m \div B12
             bl == b.m % B12
             mid == ah * bl + al * bh
             t == (mid % B12) * B12 + al * bl
             Lo == t % B24
             Hi == ah * bh + (mid \div B12) + (t \div B24)
         IN  IF Hi >= B23
             THEN F32Round(Hi, a.e + b.e + 24, Sign(Lo - B23))
             ELSE F32Round(2 * Hi + (Lo \div B23), a.e + b.e + 23,
                           Sign((Lo % B23) - (B23 \div 2)))

RECURSIVE LongDiv(_, _, _, _)
\* k more quotient bits of r / b, r < b: <<quotient, remainder>>.
LongDiv(r, b, k, q) ==
    IF k = 0 THEN <<q, r>>
    ELSE IF 2 * r >= b THEN LongDiv(2 * r - b, b, k - 1, 2 * q + 1)
    ELSE LongDiv(2 * r, b, k - 1, 2 * q)

\* a / b for b > 0.
F32Div(a, b) ==
    IF a.m = 0 THEN F32Zero
    ELSE LET k == IF a.m >= b.m THEN 23 ELSE 24
             qr == LongDiv(a.m % b.m, b.m, k, a.m \div b.m)
         IN  F32Round(qr[1], a.e - b.e - k, Sign(2 * qr[2] - b.m))

\* a + b: the smaller operand is shifted right with three extra bits, the
\* last of them sticky.
F32Add(a, b) ==
    IF a.m = 0 THEN b
    ELSE IF b.m = 0 THEN a
    ELSE LET hi == IF a.e >= b.e THEN a ELSE b
             lo == IF a.e >= b.e THEN b ELSE a
             d == hi.e - lo.e
         IN  IF d > 25 THEN hi
             ELSE LET q == (lo.m * 8) \div Pow2(d)
                      B == IF (lo.m * 8) % Pow2(d) # 0 /\ q % 2 = 0 THEN q + 1 ELSE q
                      S == hi.m * 8 + B
                  IN  IF S >= 16 * B23
                      THEN F32Round(S \div 16, hi.e + 1, Sign((S % 16) - 8))
                      ELSE F32Round(S \div 8, hi.e, Sign((S % 8) - 4))

RECURSIVE SqrtBits(_, _, _, _, _)
\* Digit-by-digit square root of T * 2^24 + L, two bits of the radicand per
\* step, i steps left: <<root, remainder>>.
SqrtBits(T, L, i, root, rem) ==
    IF i = 0 THEN <<root, rem>>
    ELSE LET pair == IF i > 12 THEN (T \div Pow2(2 * (i - 13))) % 4
                     ELSE (L \div Pow2(2 * (i - 1))) % 4
             r2 == 4 * rem + pair
             trial == 4 * root + 1
         IN  IF r2 >= trial THEN SqrtBits(T, L, i - 1, 2 * root + 1, r2 - trial)
             ELSE SqrtBits(T, L, i - 1, 2 * root, r2)

\* sqrt(a): the radicand is m * 2^k, k = 23 or 24 making e - k even.
F32Sqrt(a) ==
    IF a.m = 0 THEN F32Zero
    ELSE LET k == IF (a.e - 23) % 2 = 0 THEN 23 ELSE 24
             T == IF k = 24 THEN a.m ELSE a.m \div 2
             L == IF k = 24 THEN 0 ELSE (a.m % 2) * B23
             sr == SqrtBits(T, L, 24, 0, 0)
         IN  F32Round(sr[1], (a.e - k) \div 2, IF sr[2] > sr[1] THEN 1 ELSE -1)

\* f32::ln of the ratios document_count / documents_containing_word that
\* occur for document counts up to 4: the f32 nearest to the logarithm.
F32Ln(r) ==
    CASE r = [m |-> 8388608, e |-> -23]  -> F32Zero                         \* ln 1
      [] r = [m |-> 11184811, e |-> -23] -> [m |-> 9653010, e |-> -25]      \* ln 4/3
      [] r = [m |-> 12582912, e |-> -23] -> [m |-> 13605151, e |-> -25]     \* ln 3/2
      [] r = [m |-> 8388608, e |-> -22]  -> [m |-> 11629080, e |-> -24]     \* ln 2
      [] r = [m |-> 12582912, e |-> -22] -> [m |-> 9215828, e |-> -23]      \* ln 3
      [] r = [m |-> 8388608, e |-> -21]  -> [m |-> 11629080, e |-> -23]     \* ln 4

\* ------------------------------------------------------------ ranking.rs
Range(s) == {s[i] : i \in DOMAIN s}

RECURSIVE query_word_occurrences(_)
\* ranking.rs 30-35: *entry(word).or_insert(0) += 1 for each word in turn.
\* The empty HashMap is the function of empty domain, <<>>.
query_word_occurrences(q) ==
    IF q = <<>> THEN <<>>
    ELSE LET seen == query_word_occurrences(SubSeq(q, 1, Len(q) - 1))
             word == q[Len(q)]
         IN  [w \in DOMAIN seen \cup {word} |->
                 IF w = word
                 THEN (IF word \in DOMAIN seen THEN seen[word] ELSE 0) + 1
                 ELSE seen[w]]

\* The term frequencies with the number of distinct words as the divisor.
calculate_query_term_frequencies_distinct(q) ==
    LET occ == query_word_occurrences(q)
    IN  [w \in DOMAIN occ |-> F32Div(F32(occ[w]), F32(Cardinality(DOMAIN occ)))]

\* ranking.rs 29-43: total_query_terms is computed first (0.0 for the empty
\* query); the closure of into_iter().map divides once for each entry.
calculate_query_term_frequencies(q) ==
    LET occ == query_word_occurrences(q)
        total_query_terms == F32(Len(q))
    IN  [w \in DOMAIN occ |-> F32Div(F32(occ[w]), total_query_terms)]

\* The divisions that closure performs, as <<dividend, divisor>>.
QueryTfDivisions(q) ==
    LET occ == query_word_occurrences(q)
    IN  {<<occ[w], Len(q)>> : w \in DOMAIN occ}

\* f32::max for non-negative operands.
F32Max(a, b) == IF F32Gt(b, a) THEN b ELSE a

\* A Keyword of database.rs and an entry of Webpage.keywords.
Keyword(word, df) == [word |-> word, documents_containing_word |-> df]
Entry(word, df, occurrences) == [word |-> Keyword(word, df), occurrences |-> occurrences]

RECURSIVE SimilaritySums(_, _, _, _)
\* ranking.rs 50-66: the loop over website.keywords, given as the sequence
\* of entries in the order the HashMap yields them.
SimilaritySums(keywords, word_count, query_term_tfs, document_count) ==
    IF keywords = <<>>
    THEN [query_vector_sum |-> F32Zero, document_vector_sum |-> F32Zero,
          dot_product |-> F32Zero]
    ELSE LET acc == SimilaritySums(SubSeq(keywords, 1, Len(keywords) - 1),
                                   word_count, query_term_tfs, document_count)
             word == keywords[Len(keywords)].word
             occurrences == keywords[Len(keywords)].occurrences
             tf == F32Div(F32(occurrences), F32(word_count))
             idf == F32Max(F32Ln(F32Div(F32(document_count),
                                        F32(word.documents_containing_word))),
                           F32Zero)
             tf_idf == F32Mul(tf, idf)
         IN  IF word.word \in DOMAIN query_term_tfs
             THEN LET query_tf_idf == F32Mul(query_term_tfs[word.word], idf)
                  IN  [query_vector_sum |->
                           F32Add(acc.query_vector_sum, F32Mul(query_tf_idf, query_tf_idf)),
                       document_vector_sum |->
                           F32Add(acc.document_vector_sum, F32Mul(tf_idf, tf_idf)),
                       dot_product |->
                           F32Add(acc.dot_product, F32Mul(query_tf_idf, tf_idf))]
             ELSE acc

\* ranking.rs 45-76
calculate_similarity(website, query_term_tfs, document_count) ==
    LET sums == SimilaritySums(website.keywords, website.word_count,
                               query_term_tfs, document_count)
        query_vector == F32Sqrt(sums.query_vector_sum)
        document_vector == F32Sqrt(sums.document_vector_sum)
    IN  IF F32Gt(query_vector, F32Zero) /\ F32Gt(document_vector, F32Zero)
        THEN F32Div(sums.dot_product, F32Mul(query_vector, document_vector))
        ELSE F32Zero

\* ------------------------------------------------------------- responses
NoResp == [kind |-> "none", error |-> NoParam, matching |-> 0, results |-> <<>>]
\* Json(json!({ "error": ... })): an object with the single key "error".
ErrorResp(msg) == [kind |-> "error", error |-> msg, matching |-> 0, results |-> <<>>]
\* The search response: "matching_webpages", "results", ... and no "error".
OkResp(matching, results) ==
    [kind |-> "ok", error |-> NoParam, matching |-> matching, results |-> results]

\* --------------------------------------------------------- request tasks
IdleReq ==
    [pc |-> "idle", q |-> None, token |-> NoParam, ip |-> NoParam,
     links |-> FALSE, num |-> 0, cached |-> FALSE, verdict |-> "none",
     calls |-> 0, fetches |-> 0, fetch |-> "none", stages |-> <<>>,
     keywords |-> <<>>, webpages |-> <<>>, ranked |-> <<>>, resp |-> NoResp]
\* pc: the position in `search`.  q, token, ip, links, num: the request's
\* parameters as the handler reads them.  cached: the value of is_valid.
\* verdict: what validate_turnstile_token returned.  fetch: the variant
\* (Ok/Err) fetch_webpages returned.  keywords, webpages, ranked: the locals
\* of those names.  resp: the Json value returned.  calls, fetches, stages
\* are history: the calls made to the verifier and to fetch_webpages, and
\* the pipeline stages entered, in order.

\* Suspension points of `search` (.await).
AwaitPcs == {"lock_wait", "verifying", "fetching", "fetching_links"}
\* Positions between token_cache.lock() and the release of the guard.
LockedPcs == {"verifying", "add_token", "clean"}
EndPcs == {"done", "panicked"}

\* No pure function is being called on its own.
NoCall == [fn |-> "none", args |-> <<>>, done |-> FALSE, ret |-> <<>>]

Init ==
    /\ tokens = {}
    /\ lockHolder = 0
    /\ waitq = <<>>
    /\ now = 0
    /\ ticks = 0
    /\ req = [r \in Reqs |-> IdleReq]
    /\ lastOk = [c \in Tokens |-> NoParam]
    /\ call = NoCall

\* main.rs 137-157: a request arrives with its parameters; the handler reads
\* them (expect panics on an absent "q" or "token") and suspends in
\* token_cache.lock().await.
SearchStart(r, q, token, ip, links, results) ==
    /\ req[r].pc = "idle"
    /\ \A p \in Reqs : p < r => req[p].pc # "idle"
    /\ IF q = None \/ token = NoParam
       THEN /\ req' = [req EXCEPT ![r] =
                    [IdleReq EXCEPT !.pc = "panicked", !.q = q, !.token = token]]
            /\ waitq' = waitq
       ELSE /\ req' = [req EXCEPT ![r] =
                    [IdleReq EXCEPT !.pc = "lock_wait", !.q = q, !.token = token,
                        !.ip = ip, !.links = links,
                        !.num = Min(IF results = None THEN DefaultResults ELSE Unwrap(results),
                                    MaxResultsCfg)]]
            /\ waitq' = Append(waitq, r)
    /\ UNCHANGED <<tokens, lockHolder, now, ticks, lastOk, call>>

\* The admission check entered without mutual exclusion: is_valid is
\* evaluated although another task is between lock() and its release.
AcquireLock_unguarded(r) ==
    /\ req[r].pc = "lock_wait"
    /\ waitq # <<>> /\ Head(waitq) = r
    /\ lockHolder' = r
    /\ waitq' = Tail(waitq)
    /\ LET hit == is_valid(tokens, req[r].token, req[r].ip, now)
       IN  req' = [req EXCEPT ![r].cached = hit,
                              ![r].pc = IF hit THEN "clean" ELSE "verifying",
                              ![r].calls = IF hit THEN @ ELSE @ + 1]
    /\ UNCHANGED <<tokens, now, ticks, lastOk, call>>

\* main.rs 157-160, 168-170: the guard is granted (tokio's Mutex is FIFO),
\* is_valid is evaluated; on a miss the verifier request is sent and the task
\* suspends in validate_turnstile_token(..).await with the guard alive.
AcquireLock(r) ==
    /\ req[r].pc = "lock_wait"
    /\ lockHolder = 0
    /\ waitq # <<>> /\ Head(waitq) = r
    /\ lockHolder' = r
    /\ waitq' = Tail(waitq)
    /\ LET hit == is_valid(tokens, req[r].token, req[r].ip, now)
       IN  req' = [req EXCEPT ![r].cached = hit,
                              ![r].pc = IF hit THEN "clean" ELSE "verifying",
                              ![r].calls = IF hit THEN @ ELSE @ + 1]
    /\ UNCHANGED <<tokens, now, ticks, lastOk, call>>

\* A failed verification that still records the credential before returning.
VerifyFail_records(r) ==
    /\ req[r].pc = "verifying"
    /\ req' = [req EXCEPT ![r].verdict = "false",
                          ![r].pc = "done",
                          ![r].resp = ErrorResp("Invalid Turnstile token")]
    /\ tokens' = add_token(tokens, req[r].token, req[r].ip, now)
    /\ lockHolder' = 0
    /\ UNCHANGED <<waitq, now, ticks, lastOk, call>>

\* A failed verification without the `return`: the handler goes on.
VerifyFail_falls_through(r) ==
    /\ req[r].pc = "verifying"
    /\ req' = [req EXCEPT ![r].verdict = "false", ![r].pc = "add_token"]
    /\ UNCHANGED <<tokens, lockHolder, waitq, now, ticks, lastOk, call>>

\* main.rs 160-162 with validate_turnstile_token returning false (a "success":
\* false answer, a transport error, an unparsable body): the error response
\* is returned; the return drops the guard.
VerifyFail(r) ==
    /\ req[r].pc = "verifying"
    /\ req' = [req EXCEPT ![r].verdict = "false",
                          ![r].pc = "done",
                          ![r].resp = ErrorResp("Invalid Turnstile token")]
    /\ lockHolder' = 0
    /\ UNCHANGED <<tokens, waitq, now, ticks, lastOk, call>>

\* main.rs 160, 163-165 with validate_turnstile_token returning true.
VerifyOk(r) ==
    /\ req[r].pc = "verifying"
    /\ req' = [req EXCEPT ![r].verdict = "true", ![r].pc = "add_token"]
    /\ lastOk' = [lastOk EXCEPT ![req[r].token] = req[r].ip]
    /\ UNCHANGED <<tokens, lockHolder, waitq, now, ticks, call>>

\* main.rs 167: cache.add_token(token, ip), which reads the clock.
AddToken(r) ==
    /\ req[r].pc = "add_token"
    /\ tokens' = add_token(tokens, req[r].token, req[r].ip, now)
    /\ req' = [req EXCEPT ![r].pc = "clean"]
    /\ UNCHANGED <<lockHolder, waitq, now, ticks, lastOk, call>>

\* The end of the check with a cache hit that refreshes the matched record
\* (a sliding validity window).
CleanAndFetch_refreshes(r) ==
    /\ req[r].pc = "clean"
    /\ tokens' = clean_old_tokens(
                    IF req[r].cached
                    THEN add_token(tokens, req[r].token, req[r].ip, now)
                    ELSE tokens, now)
    /\ lockHolder' = 0
    /\ req' = [req EXCEPT ![r].pc = "fetching",
                          ![r].keywords = lemmatise_string(Unwrap(req[r].q)),
                          ![r].stages = <<"normalize", "fetch">>,
                          ![r].fetches = @ + 1]
    /\ UNCHANGED <<waitq, now, ticks, lastOk, call>>

\* main.rs 172-182: clean_old_tokens (reads the clock), drop(cache), the
\* query is lemmatised and the task suspends in fetch_webpages(..).await.
CleanAndFetch(r) ==
    /\ req[r].pc = "clean"
    /\ tokens' = clean_old_tokens(tokens, now)
    /\ lockHolder' = 0
    /\ req' = [req EXCEPT ![r].pc = "fetching",
                          ![r].keywords = lemmatise_string(Unwrap(req[r].q)),
                          ![r].stages = <<"normalize", "fetch">>,
                          ![r].fetches = @ + 1]
    /\ UNCHANGED <<waitq, now, ticks, lastOk, call>>

\* A failed fetch that is tried again instead of being reported.
FetchErr_retries(r) ==
    /\ req[r].pc = "fetching"
    /\ req[r].keywords # <<>>
    /\ req[r].fetches < 2
    /\ req' = [req EXCEPT ![r].fetch = "err", ![r].fetches = @ + 1]
    /\ UNCHANGED <<tokens, lockHolder, waitq, now, ticks, lastOk, call>>

\* main.rs 182-187 with fetch_webpages returning Err (only a query that was
\* sent can fail: no keywords, no query).
FetchErr(r) ==
    /\ req[r].pc = "fetching"
    /\ req[r].keywords # <<>>
    /\ req' = [req EXCEPT ![r].pc = "done", ![r].fetch = "err",
                          ![r].resp = ErrorResp("database error")]
    /\ UNCHANGED <<tokens, lockHolder, waitq, now, ticks, lastOk, call>>

\* The response of main.rs 236-256 for the ranked webpages.
Respond(matching, ranked, with_links) ==
    OkResp(matching, [i \in 1..Len(ranked) |-> format_result(ranked[i], with_links)])

\* main.rs 182-232 with fetch_webpages returning Ok(websites), websites in
\* the order the HashMap yields them: score, rank, truncate; then either the
\* task suspends in fetch_links_for_ids(..).await or the response is built.
FetchOk(r, websites) ==
    /\ req[r].pc = "fetching"
    /\ req[r].keywords = <<>> => websites = <<>>
    /\ LET ranked == rank_webpages(websites, req[r].num)
           ran == req[r].stages \o <<"vectorize", "score", "rank">>
       IN  req' = [req EXCEPT ![r] =
                IF req[r].links
                THEN [@ EXCEPT !.pc = "fetching_links", !.fetch = "ok",
                               !.webpages = websites, !.ranked = ranked,
                               !.stages = ran \o <<"links">>]
                ELSE [@ EXCEPT !.pc = "done", !.fetch = "ok",
                               !.webpages = websites, !.ranked = ranked,
                               !.stages = ran \o <<"assemble">>,
                               !.resp = Respond(Len(websites), ranked, FALSE)]]
    /\ UNCHANGED <<tokens, lockHolder, waitq, now, ticks, lastOk, call>>

\* main.rs 223-256: fetch_links_for_ids returns (an Err becomes the empty
\* map by unwrap_or_default, and then no result carries link data).
LinksReturn(r, ok) ==
    /\ req[r].pc = "fetching_links"
    /\ req' = [req EXCEPT ![r].pc = "done",
                          ![r].stages = @ \o <<"assemble">>,
                          ![r].resp = Respond(Len(req[r].webpages), req[r].ranked, ok)]
    /\ UNCHANGED <<tokens, lockHolder, waitq, now, ticks, lastOk, call>>

\* The wall clock advances.
Tick(d) ==
    /\ ticks < MaxTicks
    /\ now' = now + d
    /\ ticks' = ticks + 1
    /\ UNCHANGED <<tokens, lockHolder, waitq, req, lastOk, call>>

\* main.rs 257, axum::serve: the task of an answered request ends; a later
\* request is served by a new task (the slot r is used again).
Finish(r) ==
    /\ req[r].pc \in EndPcs
    /\ req' = [req EXCEPT ![r] = IdleReq]
    /\ UNCHANGED <<tokens, lockHolder, waitq, now, ticks, lastOk, call>>

\* A disconnection that drops the task but leaves the Mutex locked.
Cancel_keeps_guard(r) ==
    /\ req[r].pc \in AwaitPcs
    /\ req' = [req EXCEPT ![r].pc = "cancelled"]
    /\ waitq' = SelectSeq(waitq, LAMBDA x : x # r)
    /\ UNCHANGED <<tokens, lockHolder, now, ticks, lastOk, call>>

\* The caller disconnects while `search` is suspended at an .await (main.rs
\* 157, 160, 182, 223): the future is dropped there.  Dropping it in
\* lock().await takes the task out of the Mutex's wait queue; dropping it in
\* validate_turnstile_token(..).await drops the live guard `cache`, which
\* unlocks the Mutex.  Nothing else is undone.
Cancel(r) ==
    /\ req[r].pc \in AwaitPcs
    /\ req' = [req EXCEPT ![r].pc = "cancelled"]
    /\ waitq' = SelectSeq(waitq, LAMBDA x : x # r)
    /\ lockHolder' = IF lockHolder = r THEN 0 ELSE lockHolder
    /\ UNCHANGED <<tokens, now, ticks, lastOk, call>>

\* --------------------------------------------------------- specifications
\* Spec: concurrent requests against the admission cache, with a moving
\* clock; every request carries a query and asks for no link data.
SpecQueries == {None, Some(<<"foxes">>)}
SpecStore == {{}, {Webpage(1, One)}}
SpecAnswers == UNION {Orders(D) : D \in SpecStore}

Next ==
    \/ \E r \in Reqs, q \in SpecQueries, token \in Tokens \cup {NoParam}, ip \in IPs :
          SearchStart(r, q, token, ip, FALSE, None)
    \/ \E r \in Reqs : AcquireLock(r)
    \/ \E r \in Reqs : VerifyFail(r)
    \/ \E r \in Reqs : VerifyOk(r)
    \/ \E r \in Reqs : AddToken(r)
    \/ \E r \in Reqs : CleanAndFetch(r)
    \/ \E r \in Reqs : FetchErr(r)
    \/ \E r \in Reqs, o \in SpecAnswers : FetchOk(r, o)
    \/ \E d \in TickJumps : Tick(d)

Spec == Init /\ [][Next]_vars

\* SpecPipeline: one request taken through the whole handler, with every
\* combination of parameters and every answer of the store.
PipelineQueries == {None, Some(<<>>), Some(<<"the", "foxes">>)}
Requested == {None} \cup {Some(n) : n \in 0..MaxRequested}
PipelineAnswers == UNION {Orders(D) : D \in WebpageSets}

NextPipeline ==
    \/ \E q \in PipelineQueries, token \in {"t1", NoParam}, links \in BOOLEAN,
          results \in Requested : SearchStart(1, q, token, "a", links, results)
    \/ AcquireLock(1)
    \/ VerifyFail(1)
    \/ VerifyOk(1)
    \/ AddToken(1)
    \/ CleanAndFetch(1)
    \/ FetchErr(1)
    \/ \E o \in PipelineAnswers : FetchOk(1, o)
    \/ \E ok \in BOOLEAN : LinksReturn(1, ok)

SpecPipeline == Init /\ [][NextPipeline]_vars

\* SpecLive: concurrent requests with one credential, callers that may
\* disconnect at any suspension point, and fair scheduling: a task that can
\* take the guard or run on with it does so, and the verifier answers.  No
\* fairness is assumed of arrivals, disconnections or the store.
NextLive ==
    \/ \E r \in Reqs, ip \in IPs : SearchStart(r, Some(<<"foxes">>), "t1", ip, FALSE, None)
    \/ \E r \in Reqs : AcquireLock(r)
    \/ \E r \in Reqs : VerifyFail(r)
    \/ \E r \in Reqs : VerifyOk(r)
    \/ \E r \in Reqs : AddToken(r)
    \/ \E r \in Reqs : CleanAndFetch(r)
    \/ \E r \in Reqs : FetchErr(r)
    \/ \E r \in Reqs, o \in SpecAnswers : FetchOk(r, o)
    \/ \E r \in Reqs : Cancel(r)

Fairness ==
    \A r \in Reqs :
        /\ WF_vars(AcquireLock(r))
        /\ WF_vars(VerifyFail(r) \/ VerifyOk(r))
        /\ WF_vars(AddToken(r))
        /\ WF_vars(CleanAndFetch(r))

SpecLive == Init /\ [][NextLive]_vars /\ Fairness

\* SpecWindow: one credential presented again and again over more than one
\* validity window; the task of an answered request ends and its slot
\* serves a later request.
NextWindow ==
    \/ \E r \in Reqs, ip \in IPs : SearchStart(r, Some(<<"foxes">>), "t1", ip, FALSE, None)
    \/ \E r \in Reqs : AcquireLock(r)
    \/ \E r \in Reqs : VerifyFail(r)
    \/ \E r \in Reqs : VerifyOk(r)
    \/ \E r \in Reqs : AddToken(r)
    \/ \E r \in Reqs : CleanAndFetch(r)
    \/ \E r \in Reqs : FetchErr(r)
    \/ \E r \in Reqs : FetchOk(r, <<>>)
    \/ \E r \in Reqs : Finish(r)
    \/ \E d \in TickJumps : Tick(d)

SpecWindow == Init /\ [][NextWindow]_vars

\* The handler's state when no request has arrived.
HandlerIdle ==
    /\ tokens = {}
    /\ lockHolder = 0
    /\ waitq = <<>>
    /\ now = 0
    /\ ticks = 0
    /\ req = [r \in Reqs |-> IdleReq]
    /\ lastOk = [c \in Tokens |-> NoParam]

\* Words a lemmatised query is made of, and those of them the store has as
\* keywords of a webpage.
Vocabulary == {"fox", "dog", "the"}
DocWords == {"fox", "dog"}
LemmatisedQueries == UNION {[1..n -> Vocabulary] : n \in 0..MaxQueryLen}

\* SpecTf: calculate_query_term_frequencies called on every lemmatised query.
TfCalls ==
    {[fn |-> "calculate_query_term_frequencies", args |-> <<q>>,
      done |-> FALSE, ret |-> <<>>] : q \in LemmatisedQueries}

InitTf == HandlerIdle /\ call \in TfCalls

QueryTfReturn ==
    /\ call.fn = "calculate_query_term_frequencies"
    /\ ~call.done
    /\ call' = [call EXCEPT !.done = TRUE,
                            !.ret = calculate_query_term_frequencies(call.args[1])]
    /\ UNCHANGED <<tokens, lockHolder, waitq, now, ticks, req, lastOk>>

NextTf == QueryTfReturn

SpecTf == InitTf /\ [][NextTf]_vars

\* SpecSimilarity: calculate_similarity called as get_tf_idf_scores calls it
\* (ranking.rs 9-20), on the term frequencies of a lemmatised query, for
\* every webpage whose keywords are among DocWords, whose occurrences add up
\* to at most its word_count, and whose document frequencies lie between 1
\* and document_count.
RECURSIVE SumOccurrences(_)
SumOccurrences(keywords) ==
    IF keywords = <<>> THEN 0
    ELSE Head(keywords).occurrences + SumOccurrences(Tail(keywords))

KeywordMaps(document_count, word_count) ==
    LET entries == {Entry(w, df, o) : w \in DocWords, df \in 1..document_count,
                                      o \in 1..word_count}
    IN  {ks \in UNION {[1..n -> entries] : n \in 0..Cardinality(DocWords)} :
            /\ \A i, j \in DOMAIN ks : i # j => ks[i].word.word # ks[j].word.word
            /\ SumOccurrences(ks) <= word_count}

SimilarityCall(website, q, document_count) ==
    [fn |-> "calculate_similarity", args |-> <<website, q, document_count>>,
     done |-> FALSE, ret |-> F32Zero]

InitSimilarity ==
    /\ HandlerIdle
    /\ \E N \in 1..MaxCorpus, wc \in 1..MaxWordCount :
          \E ks \in KeywordMaps(N, wc), q \in LemmatisedQueries :
              call = SimilarityCall([word_count |-> wc, keywords |-> ks], q, N)

SimilarityReturn ==
    /\ call.fn = "calculate_similarity"
    /\ ~call.done
    /\ call' = [call EXCEPT !.done = TRUE,
                            !.ret = calculate_similarity(call.args[1],
                                        calculate_query_term_frequencies(call.args[2]),
                                        call.args[3])]
    /\ UNCHANGED <<tokens, lockHolder, waitq, now, ticks, req, lastOk>>

NextSimilarity == SimilarityReturn

SpecSimilarity == InitSimilarity /\ [][NextSimilarity]_vars

\* SpecLemmatise: lemmatise_string_with_custom_map called on every text of
\* at most MaxTextLen characters with every table that gives some of
\* LemmaKeys a lemma among LemmaValues (one of them not lower-case).
Texts == UNION {[1..n -> Chars] : n \in 0..MaxTextLen}
LemmaKeys == {<<"a">>, <<"a", "b">>}
LemmaValues == {<<"a">>, <<"b">>, <<"A">>}
LemmaTables == UNION {[K -> LemmaValues] : K \in SUBSET LemmaKeys}

InitLemmatise ==
    /\ HandlerIdle
    /\ \E text \in Texts, custom_map \in LemmaTables :
          call = [fn |-> "lemmatise_string_with_custom_map",
                  args |-> <<text, custom_map>>, done |-> FALSE, ret |-> <<>>]

LemmatiseReturn ==
    /\ call.fn = "lemmatise_string_with_custom_map"
    /\ ~call.done
    /\ call' = [call EXCEPT !.done = TRUE,
                            !.ret = lemmatise_string_with_custom_map(call.args[1], call.args[2])]
    /\ UNCHANGED <<tokens, lockHolder, waitq, now, ticks, req, lastOk>>

NextLemmatise == LemmatiseReturn

SpecLemmatise == InitLemmatise /\ [][NextLemmatise]_vars

\* ----------------------------------------------------------------- claims
\* The check of request r finishes in this step: r gives the guard back.
CheckEnds(r) == lockHolder = r /\ lockHolder' # r
\* The record of credential c in cache, as a set (empty when there is none).
RecordsOf(cache, c) == {rec \in cache : rec.token = c}

\* C1: in the admission check the verifier is invoked if and only if the
\* cache holds no record of the presented credential with the request's
\* origin and an age of at most 120 s.  So with a record written at T, a
\* check from the recorded origin at any time up to T+119 s makes no verifier
\* call, a check at T+121 s or later makes one, and a check from another
\* origin always makes one.
C1_VerifierIffNoLiveRecord ==
    [][/\ \A r \in Reqs :
        (req[r].pc = "lock_wait" /\ req'[r].pc # "lock_wait") =>
            LET mine == RecordsOf(tokens, req[r].token)
                live == \E rec \in mine : rec.ip = req[r].ip /\ now - rec.ts <= 120
                called == req'[r].calls = 1 /\ req'[r].pc = "verifying"
                admitted == req'[r].calls = 0 /\ req'[r].pc = "clean"
            IN  /\ called <=> ~live
                /\ admitted <=> live
                /\ \A rec \in mine :
                      /\ (rec.ip = req[r].ip /\ now <= rec.ts + 119) => admitted
                      /\ now >= rec.ts + 121 => called
                      /\ rec.ip # req[r].ip => called
       \* a record stays until it is older than 120 s or a later
       \* verification of its credential replaces it
       /\ \A rec \in tokens \ tokens' :
              \/ now - rec.ts > 120
              \/ \E new \in tokens' : new.token = rec.token /\ new.ts >= rec.ts
    ]_vars

\* C1 witness: a request was admitted on a record that is 119 s old.
C1_Witness ==
    \E r \in Reqs :
        /\ req[r].pc = "clean" /\ req[r].cached /\ req[r].calls = 0
        /\ \E rec \in RecordsOf(tokens, req[r].token) :
              rec.ip = req[r].ip /\ now - rec.ts = 119

\* C2 (as claimed): a request waiting on the verifier, on the webpage fetch
\* or on the link fetch does not hold the cache's mutex.
C2_NoGuardWhileWaiting ==
    \A r \in Reqs :
        req[r].pc \in {"verifying", "fetching", "fetching_links"} => lockHolder # r

\* C3 (as claimed): whenever a check finishes, admitted or rejected, the
\* cache holds no record older than 120 s.
C3_SweptAfterEveryCheck ==
    [][\A r \in Reqs :
        CheckEnds(r) => \A rec \in tokens' : now' - rec.ts <= 120
    ]_vars

\* C3 (amended): a check that finishes with the request admitted leaves
\* exactly the records of age <= 120 s; a check that finishes with a
\* rejection leaves the cache as it was, expired records included.
C3_SweptAfterAdmission ==
    [][\A r \in Reqs :
        CheckEnds(r) =>
            IF req'[r].verdict = "false"
            THEN tokens' = tokens
            ELSE /\ \A rec \in tokens' : now' - rec.ts <= 120
                 /\ tokens' = {rec \in tokens : now - rec.ts <= 120}
    ]_vars

\* C3 witness: a request has just been admitted and the record of a
\* credential that was verified earlier is gone: the sweep purged it.
C3_Witness ==
    \E r \in Reqs, c \in Tokens :
        /\ req[r].pc = "fetching" /\ lockHolder = 0
        /\ lastOk[c] # NoParam
        /\ \A p \in Reqs : req[p].pc \notin LockedPcs
        /\ RecordsOf(tokens, c) = {}

\* C4: when the verifier answers false the request ends with the
\* verification-failure error response, which is not a successful response
\* with an empty result list, and the check creates or overwrites no record.
C4_RejectionKeepsCache ==
    [][\A r \in Reqs :
        (req[r].pc = "verifying" /\ req'[r].verdict = "false") =>
            /\ req'[r].pc = "done"
            /\ req'[r].resp.kind = "error"
            /\ req'[r].resp.error = "Invalid Turnstile token"
            /\ req'[r].resp # OkResp(0, <<>>)
            /\ req'[r].stages = <<>>
            /\ tokens' \subseteq tokens
            /\ RecordsOf(tokens', req[r].token) \subseteq RecordsOf(tokens, req[r].token)
    ]_vars

\* C4 witness: a request was rejected while the cache held a record of its
\* credential (written for another origin or expired).
C4_Witness ==
    \E r \in Reqs :
        /\ req[r].pc = "done" /\ req[r].verdict = "false"
        /\ RecordsOf(tokens, req[r].token) # {}

\* C5: at most one record per credential, carrying the origin of the most
\* recent successful verification of the credential and the clock value at
\* which that verification was recorded; records enter the cache only by
\* the insert of the request that holds the guard; each request's lookup,
\* insert and sweep happen while it alone holds the guard.
C5_OneRecordLatestWins ==
    /\ [](/\ \A r1, r2 \in tokens : r1.token = r2.token => r1 = r2
          /\ \A rec \in tokens :
                /\ rec.ts <= now
                /\ (\A r \in Reqs : ~(req[r].pc = "add_token" /\ req[r].token = rec.token))
                      => rec.ip = lastOk[rec.token]
          /\ \A r \in Reqs : req[r].pc \in LockedPcs <=> lockHolder = r)
    /\ [][/\ tokens' # tokens => \E r \in Reqs : lockHolder = r /\ req[r].pc \in LockedPcs
          /\ \A rec \in tokens' \ tokens :
                \E r \in Reqs :
                    /\ lockHolder = r /\ req[r].verdict = "true"
                    /\ rec = [token |-> req[r].token, ts |-> now, ip |-> req[r].ip]
                    /\ RecordsOf(tokens', rec.token) = {rec}
       ]_vars

\* C5 witness: a credential verified from one origin and then from another
\* has the single record of the later verification.
C5_Witness ==
    \E r1, r2 \in Reqs :
        /\ r1 # r2 /\ req[r1].token = req[r2].token /\ req[r1].ip # req[r2].ip
        /\ req[r1].verdict = "true" /\ req[r2].verdict = "true"
        /\ req[r1].pc = "fetching" /\ req[r2].pc = "fetching"
        /\ \E rec \in tokens : RecordsOf(tokens, req[r1].token) = {rec}

IsPrefix(s, t) == Len(s) <= Len(t) /\ s = SubSeq(t, 1, Len(s))
StagesNoLinks == <<"normalize", "fetch", "vectorize", "score", "rank", "assemble">>
StagesWithLinks == <<"normalize", "fetch", "vectorize", "score", "rank", "links", "assemble">>

\* C6: no pipeline stage runs for a request before its admission check has
\* admitted it and ended; a rejected request reaches no stage; the stages
\* of an admitted request run in the order normalization, fetch,
\* vectorization, scoring, ranking, (links,) assembly.
C6_PipelineAfterAdmission ==
    \A r \in Reqs :
        LET st == req[r].stages
        IN  /\ st # <<>> =>
                  /\ req[r].cached \/ req[r].verdict = "true"
                  /\ req[r].pc \in {"fetching", "fetching_links", "done"}
                  /\ lockHolder # r
            /\ req[r].verdict = "false" => st = <<>>
            /\ req[r].pc \in {"idle", "panicked", "lock_wait"} \cup LockedPcs => st = <<>>
            /\ IsPrefix(st, StagesNoLinks) \/ IsPrefix(st, StagesWithLinks)

\* C6 witness: a request admitted on a cache hit ran the whole pipeline.
C6_Witness ==
    \E r \in Reqs :
        req[r].pc = "done" /\ req[r].cached /\ req[r].stages = StagesNoLinks

\* The response of request r to a query whose fetch succeeded.
Answered(r) == req[r].pc = "done" /\ req[r].fetch = "ok"
\* How many of the fetched webpages have a score in S.
CountIn(r, S) ==
    Cardinality({i \in 1..Len(req[r].webpages) : req[r].webpages[i].score \in S})

\* C7 (as claimed): the returned list has min(number of documents scoring
\* >= 1.0, requested bound) entries and no document scoring below 1.0.
C7_TruncatedToThreshold ==
    \A r \in Reqs :
        Answered(r) =>
            LET res == req[r].resp.results
            IN  /\ Len(res) = Min(CountIn(r, {s \in Scores : s >= One}), req[r].num)
                /\ \A i \in 1..Len(res) : res[i].score >= One

\* The best score among the webpages fetched for request r (0 when none).
TopScore(r) ==
    IF req[r].webpages = <<>> THEN 0
    ELSE CHOOSE s \in Scores :
            /\ \E i \in 1..Len(req[r].webpages) : req[r].webpages[i].score = s
            /\ \A i \in 1..Len(req[r].webpages) : req[r].webpages[i].score <= s

\* C7 (amended): the returned list has min(number of documents, K) entries,
\* K being max(number of documents scoring 1.0, bound) when the best score
\* is exactly 1.0 and the bound otherwise; in the first case every document
\* scoring 1.0 is returned, and documents below 1.0 fill the list up to the
\* bound.
C7_AtLeastTheBound ==
    \A r \in Reqs :
        Answered(r) =>
            LET res == req[r].resp.results
                ones == CountIn(r, {One})
                K == IF TopScore(r) = One THEN Max(ones, req[r].num) ELSE req[r].num
            IN  /\ Len(res) = Min(Len(req[r].webpages), K)
                /\ TopScore(r) = One =>
                      Cardinality({i \in 1..Len(res) : res[i].score = One}) = ones

\* C7 witness: more documents score 1.0 than the bound allows, and all of
\* them are returned.
C7_Witness ==
    \E r \in Reqs :
        /\ Answered(r)
        /\ CountIn(r, {One}) > req[r].num
        /\ Len(req[r].resp.results) = CountIn(r, {One})

\* Site-authority rank of a webpage for ordering: the rank of its host, and
\* past every rank when the host is not in the table.
AuthorityKey(id) ==
    IF HostOf(id) \in DOMAIN TopDomains
    THEN TopDomains[HostOf(id)]
    ELSE Cardinality(DOMAIN TopDomains) + 1

C9_MissingParameterRejected ==
    \A r \in Reqs :
        (req[r].pc # "idle" /\ (req[r].q = None \/ req[r].token = NoParam)) =>
            /\ req[r].pc = "done"
            /\ req[r].resp.kind = "error"
            /\ req[r].calls = 0 /\ req[r].stages = <<>>

\* C10: when fetch_webpages fails the request ends, without a panic, with
\* an error response that carries an error and no results; the fetch was
\* attempted once and no later stage ran.
C10_FetchFailureReported ==
    \A r \in Reqs :
        /\ req[r].fetches <= 1
        /\ req[r].fetch = "err" =>
              /\ req[r].pc = "done"
              /\ req[r].resp.kind = "error"
              /\ req[r].resp.error # NoParam
              /\ req[r].resp.results = <<>>
              /\ req[r].fetches = 1
              /\ req[r].stages = <<"normalize", "fetch">>

\* C10 witness: a request whose fetch failed has ended.
C10_Witness ==
    \E r \in Reqs : req[r].fetch = "err" /\ req[r].pc = "done" /\ req[r].keywords # <<>>


\* C11: a request that holds the admission cache's guard gives it back on
\* every exit path (hit, verification accepted, verification rejected, caller
\* disconnected): the Mutex is locked only by a task that is between lock()
\* and its release.  So, with fair scheduling and a verifier that answers,
\* every request waiting in lock().await is eventually granted the guard
\* (unless its own caller disconnects first).
C11_GuardReleasedSoWaitersAcquire ==
    /\ [](\A r \in Reqs : lockHolder = r => req[r].pc \in LockedPcs)
    /\ [](lockHolder \in Reqs \cup {0})
    /\ \A r \in Reqs :
          (req[r].pc = "lock_wait") ~> (lockHolder = r \/ req[r].pc = "cancelled")

\* A request holds the guard after the request ahead of it was abandoned in
\* the verifier call, guard in hand.
C11_Witness ==
    \E r, p \in Reqs :
        /\ p < r
        /\ lockHolder = r
        /\ req[p].pc = "cancelled" /\ req[p].calls = 1 /\ req[p].verdict = "none"


\* The requests that present credential c from origin i.
Presenting(c, i) == {r \in Reqs : req[r].token = c /\ req[r].ip = i}
\* Credential c is presented from origin i only, and everything so far
\* happened within one validity window.
OneOriginOneWindow(c, i) ==
    /\ now <= TTL
    /\ \A r \in Reqs : req[r].token = c => req[r].ip = i

\* C15: when several requests present the same credential from the same
\* origin, the cache holding no record of it, all within one validity window,
\* the verifier is called without a rejection for at most one of them: once
\* it has accepted the credential for one request, every later request of
\* the group that has entered its admission check was a cache hit and made
\* no verifier call.
C15_OneVerifierCallPerGroup ==
    \A c \in Tokens, i \in IPs :
        OneOriginOneWindow(c, i) =>
            /\ Cardinality({r \in Presenting(c, i) :
                    req[r].calls = 1 /\ req[r].verdict # "false"}) <= 1
            /\ \A p, r \in Presenting(c, i) :
                  (p < r /\ req[p].verdict = "true" /\ req[r].pc # "lock_wait") =>
                      /\ req[r].cached /\ req[r].calls = 0
                      /\ req[r].resp # ErrorResp("Invalid Turnstile token")

\* Two requests with one credential and origin waited together; the first
\* was verified, the second was admitted from the cache.
C15_Witness ==
    \E c \in Tokens, i \in IPs :
        /\ OneOriginOneWindow(c, i)
        /\ \E p, r \in Presenting(c, i) :
              /\ p < r
              /\ req[p].calls = 1 /\ req[p].verdict = "true"
              /\ req[r].cached /\ req[r].calls = 0 /\ req[r].pc = "fetching"


\* Request r makes a step of its admission check, and that check is a hit.
HitStep(r) ==
    /\ req[r].pc \in {"lock_wait", "clean"}
    /\ req'[r].pc # req[r].pc
    /\ req'[r].cached

\* C16: a cache hit does not rewrite the matched record.  In every step of
\* a check that is a hit, each record of the credential after the step is a
\* record before it with the same timestamp and origin, and a record still
\* within the window is kept (the sweep may only drop a record that has
\* expired meanwhile).  So the window runs from the verification that wrote
\* the record: a check made more than 120 s after the record's timestamp
\* calls the verifier, whatever hits there were in between.
C16_HitKeepsRecord ==
    [][\A r \in Reqs :
        /\ HitStep(r) =>
            /\ RecordsOf(tokens', req[r].token) \subseteq RecordsOf(tokens, req[r].token)
            /\ \A rec \in RecordsOf(tokens, req[r].token) :
                  now - rec.ts <= TTL => rec \in tokens'
        /\ (req[r].pc = "lock_wait" /\ req'[r].pc # "lock_wait" /\ lockHolder' = r /\
            \A rec \in RecordsOf(tokens, req[r].token) : now - rec.ts > TTL) =>
                (~req'[r].cached /\ req'[r].calls = req[r].calls + 1)
      ]_vars

\* A request is re-verifying a credential whose record, written more than
\* 120 s ago from the same origin, is still in the cache, the other request
\* having been admitted by a hit on it after the record was written.
C16_Witness ==
    \E r, p \in Reqs :
        /\ r # p
        /\ req[r].pc = "verifying"
        /\ req[p].cached /\ req[p].pc \in {"fetching", "done"}
        /\ req[p].token = req[r].token /\ req[p].ip = req[r].ip
        /\ \E rec \in RecordsOf(tokens, req[r].token) :
              rec.ip = req[r].ip /\ now - rec.ts > TTL


\* The keywords of the webpage of a calculate_similarity call that the query
\* has too.
SharedEntries ==
    {i \in DOMAIN call.args[1].keywords :
        call.args[1].keywords[i].word.word \in Range(call.args[2])}

\* C12: calculate_similarity returns a score in [0, 1] (a value of the model
\* is never negative); the score is 0 when the query and the webpage share
\* no term, and when every shared term has idf 0, that is, is contained in
\* every document.
C12_ScoreInUnitInterval ==
    (call.fn = "calculate_similarity" /\ call.done) =>
        /\ ~F32Gt(call.ret, F32One)
        /\ SharedEntries = {} => call.ret = F32Zero
        /\ (\A i \in SharedEntries :
                call.args[1].keywords[i].word.documents_containing_word = call.args[3])
             => call.ret = F32Zero

Abs(x) == IF x < 0 THEN -x ELSE x
\* v is an f32 nearest to n / d: the two differ by at most half of 2^v.e.
IsNearestF32(v, n, d) == 2 * Abs(v.m * d - n * Pow2(-v.e)) <= d

RECURSIVE SumScaled(_, _)
\* The sum of the values tfs[w], w in ws, in units of 2^-30.
SumScaled(tfs, ws) ==
    IF ws = {} THEN 0
    ELSE LET w == CHOOSE x \in ws : TRUE
         IN  tfs[w].m * Pow2(tfs[w].e + 30) + SumScaled(tfs, ws \ {w})

\* The number of occurrences of w in q.
Occurrences(q, w) == Cardinality({i \in DOMAIN q : q[i] = w})

\* C13: calculate_query_term_frequencies maps each distinct token of the
\* sequence, and nothing else, to the f32 nearest to its number of
\* occurrences divided by the length of the sequence; every division it
\* performs has the length, which is not 0, as its divisor; the values of a
\* non-empty sequence sum to 1 up to the rounding of each (half of 2^-24 at
\* most); for the empty sequence the result is the empty mapping and no
\* division is performed.
C13_TfIsCountOverLength ==
    (call.fn = "calculate_query_term_frequencies" /\ call.done) =>
        LET q == call.args[1]
            tfs == call.ret
        IN  /\ DOMAIN tfs = Range(q)
            /\ \A w \in Range(q) : IsNearestF32(tfs[w], Occurrences(q, w), Len(q))
            /\ \A d \in QueryTfDivisions(q) : d[2] = Len(q) /\ d[2] # 0
            /\ q # <<>> =>
                  Abs(SumScaled(tfs, DOMAIN tfs) - Pow2(30)) <= 32 * Cardinality(DOMAIN tfs)
            /\ q = <<>> => (tfs = <<>> /\ QueryTfDivisions(q) = {})

\* The frequencies of a query of three words, two of them equal, have been
\* returned: thirds, which no f32 represents exactly.
C13_Witness ==
    /\ call.fn = "calculate_query_term_frequencies" /\ call.done
    /\ Len(call.args[1]) = 3
    /\ Cardinality(DOMAIN call.ret) = 2


\* The positions of text where a whitespace-separated token starts.
TokenStarts(text) ==
    {i \in DOMAIN text :
        text[i] \notin WhitespaceChars /\ (i = 1 \/ text[i - 1] \in WhitespaceChars)}
\* The k-th of them, and the token that starts at position i.
KthStart(text, k) ==
    CHOOSE i \in TokenStarts(text) : Cardinality({j \in TokenStarts(text) : j < i}) = k - 1
TokenAt(text, i) ==
    SubSeq(text, i,
           CHOOSE j \in i..Len(text) :
               /\ \A k \in i..j : text[k] \notin WhitespaceChars
               /\ j = Len(text) \/ text[j + 1] \in WhitespaceChars)

\* The lower-cased text with every character other than a letter, a digit
\* or whitespace removed.
NormalisedText(text) ==
    LET kept == {i \in DOMAIN text : text[i] \in KeptChars}
    IN  [k \in 1..Cardinality(kept) |->
            to_lowercase(text)[CHOOSE i \in kept : Cardinality({j \in kept : j < i}) = k - 1]]

\* out has one word for each token of the normalised text, in order: the
\* token's lemma when the table has the token, the token otherwise.
OneWordPerToken(text, custom_map, out) ==
    LET n == NormalisedText(text)
    IN  /\ Len(out) = Cardinality(TokenStarts(n))
        /\ \A k \in 1..Len(out) :
              LET tok == TokenAt(n, KthStart(n, k))
              IN  out[k] = IF tok \in DOMAIN custom_map THEN custom_map[tok] ELSE tok

\* The table maps every word of out to itself or not at all.
FixedByTable(custom_map, out) ==
    \A k \in 1..Len(out) : out[k] \notin DOMAIN custom_map \/ custom_map[out[k]] = out[k]

\* w is a token as the lemmatiser forms them: not empty, lower-case letters
\* and digits only.
IsToken(w) == w # <<>> /\ \A i \in DOMAIN w : w[i] \in {"a", "b"}

\* C14 (as claimed): the result has one word per token of the normalised
\* text, lemma or token; and when the table maps every word of the result
\* to itself or not at all, lemmatising the space-joined result returns it.
C14_LemmatiseIdempotent ==
    (call.fn = "lemmatise_string_with_custom_map" /\ call.done) =>
        /\ OneWordPerToken(call.args[1], call.args[2], call.ret)
        /\ FixedByTable(call.args[2], call.ret) =>
              lemmatise_string_with_custom_map(join(call.ret), call.args[2]) = call.ret

\* C14 (amended): the result has one word per token of the normalised text,
\* lemma or token; and when every word of the result is itself a token
\* (which a lemma of the table need not be) that the table maps to itself or
\* not at all, lemmatising the space-joined result returns it.
C14_LemmatiseIdempotentOnTokens ==
    (call.fn = "lemmatise_string_with_custom_map" /\ call.done) =>
        /\ OneWordPerToken(call.args[1], call.args[2], call.ret)
        /\ (FixedByTable(call.args[2], call.ret) /\ \A k \in 1..Len(call.ret) : IsToken(call.ret[k])) =>
              lemmatise_string_with_custom_map(join(call.ret), call.args[2]) = call.ret

\* A text with an upper-case letter, a punctuation character and two
\* tokens, one of them replaced by its lemma, has been lemmatised, and the
\* table leaves the words of the result, tokens both, as they are.
C14_Witness ==
    /\ call.fn = "lemmatise_string_with_custom_map" /\ call.done
    /\ \E i, j \in DOMAIN call.args[1] : call.args[1][i] = "A" /\ call.args[1][j] = "-"
    /\ Len(call.ret) = 2
    /\ \E k \in 1..2 : call.ret[k] \notin Range(split_whitespace(replace_all(to_lowercase(call.args[1]))))
    /\ FixedByTable(call.args[2], call.ret)
    /\ \A k \in 1..2 : IsToken(call.ret[k])

====
